---- MODULE Spec2Model ----
(***************************************************************************)
(* A model of facebook/__init__.py: the GraphAPI session (request, the     *)
(* retry loops, the paging loop, batch capture and execute), the response  *)
(* normalizer _handle_response and the GraphAPIError constructor.          *)
(*                                                                         *)
(* Conventions.  Python None and the empty string are both written "" for  *)
(* strings and 0 for a status code (both are falsy where the code tests    *)
(* them).  A JSON value is a record [t |-> tag, v |-> value]; a JSON       *)
(* mapping's value is a function from its keys.  A path or URL is a        *)
(* sequence of string tokens.                                              *)
(***************************************************************************)
EXTENDS Integers, Sequences, FiniteSets, TLC

\* ------------------------------------------------------------ bounds
\* the largest error_code_2_retries a session is constructed with
MaxRetries == 2
\* the longest chain of pages the server serves for one request
MaxPages == 3
\* the most descriptors captured in one session's buffer
MaxStack == 2
\* the deepest nesting of batch scopes (with blocks) on one session
MaxScopes == 2

\* ------------------------------------------------------------ constants
ERROR_CODE_TYPE_2 == 2
BASE_URL == "https://graph.facebook.com"
\* GraphAPIError.type when no classification is found (the code stores "")
EmptyType == -1
\* the status code from which _handle_response always raises
ErrorStatus == 400

\* ------------------------------------------------------------ JSON values
EmptyMap == [k \in {} |-> 0]
Dict(m) == [t |-> "dict", v |-> m]
List(s) == [t |-> "list", v |-> s]
Str(s) == [t |-> "str", v |-> s]
Bool(b) == [t |-> "bool", v |-> b]
Null == [t |-> "null", v |-> ""]

\* Python truthiness of a JSON value
Truthy(j) ==
    CASE j.t = "dict" -> DOMAIN j.v # {}
      [] j.t = "list" -> j.v # <<>>
      [] j.t = "str" -> j.v # ""
      [] j.t = "bool" -> j.v
      [] OTHER -> FALSE

IsDict(j) == j.t = "dict"

\* dict.get(k, default) on a mapping
Get(m, k, default) == IF k \in DOMAIN m THEN m[k] ELSE default

\* del m[k]
Del(m, k) == [j \in DOMAIN m \ {k} |-> m[j]]

\* dict.update: the keys of u replace those of m
Update(m, u) == u @@ m

\* ------------------------------------------------------------ GraphAPIError
\* a bug: the top-level error_code is not looked at
GraphAPIErrorTypeFromStatus_NoErrorCode(result, status_code) ==
    IF status_code # 0 THEN status_code ELSE EmptyType

\* result is a JSON value; status_code 0 stands for None
GraphAPIErrorTypeFromStatus(result, status_code) ==
    IF status_code # 0 THEN status_code
    ELSE IF IsDict(result) /\ "error_code" \in DOMAIN result.v
         THEN result.v["error_code"]
         ELSE EmptyType

HasErrorDescription(result) ==
    IsDict(result) /\ "error_description" \in DOMAIN result.v

\* result["error"]["message"] can be read
HasErrorMessage(result) ==
    /\ IsDict(result)
    /\ "error" \in DOMAIN result.v
    /\ "message" \in DOMAIN result.v["error"]

\* result["error"]["code"] can be read after the message was
HasErrorCode(result) ==
    HasErrorMessage(result) /\ "code" \in DOMAIN result.v["error"]

HasErrorMsg(result) ==
    IsDict(result) /\ "error_msg" \in DOMAIN result.v

GraphAPIError(result, status_code) ==
    LET type0 == GraphAPIErrorTypeFromStatus(result, status_code)
        base == [result |-> result, type |-> type0, message |-> result,
                 data |-> <<>>, pages_seen |-> 0, partial |-> FALSE]
    IN  IF HasErrorDescription(result)
        THEN [base EXCEPT !.message = Str(result.v["error_description"])]
        ELSE IF HasErrorCode(result)
        THEN [base EXCEPT !.message = Str(result.v["error"]["message"]),
                          !.type = result.v["error"]["code"]]
        ELSE IF HasErrorMsg(result)
        THEN [base EXCEPT !.message = Str(result.v["error_msg"])]
        ELSE base

\* ------------------------------------------------------------ responses
\* A response is [status_code, headers, body, url].  A body is
\* [fmt, json, qs, raw]: fmt = "json" when json.loads accepts it (json is the
\* parsed value), otherwise qs is what parse_qs makes of it and raw its bytes.
JsonBody(j) == [fmt |-> "json", json |-> j, qs |-> EmptyMap, raw |-> <<>>]
TextBody(qs, raw) == [fmt |-> "text", json |-> Null, qs |-> qs, raw |-> raw]
Response(status_code, content_type, body) ==
    [status_code |-> status_code,
     headers |-> IF content_type = "" THEN EmptyMap
                 ELSE [k \in {"content-type"} |-> content_type],
     body |-> body,
     url |-> <<"final">>]

ImageTypes == {"image/png", "image/jpeg"}

\* 'image/' in headers.get('content-type', '')
IsImage(headers) == Get(headers, "content-type", "") \in ImageTypes

NotParsedMessage == Str("Body was not JSON, image, or querystring")
StatusMessage == Str("Received status_code but body type could not be determined")

\* a bug: the content type is looked at before json.loads is tried
ParseBody_ImageFirst(headers, body, url) ==
    IF IsImage(headers)
    THEN [ok |-> TRUE,
          result |-> Dict([k \in {"data", "mime-type", "url"} |->
                            CASE k = "data" -> body.raw
                              [] k = "mime-type" -> headers["content-type"]
                              [] OTHER -> url])]
    ELSE IF body.fmt = "json" THEN [ok |-> TRUE, result |-> body.json]
    ELSE IF "access_token" \in DOMAIN body.qs
    THEN [ok |-> TRUE,
          result |-> Dict([k \in {"access_token", "expires"} \cap DOMAIN body.qs
                            |-> body.qs[k]])]
    ELSE [ok |-> FALSE, result |-> Null]

\* the result of the first stage: json.loads, or the image/querystring fallbacks
ParseBody(headers, body, url) ==
    IF body.fmt = "json" THEN [ok |-> TRUE, result |-> body.json]
    ELSE IF IsImage(headers)
    THEN [ok |-> TRUE,
          result |-> Dict([k \in {"data", "mime-type", "url"} |->
                            CASE k = "data" -> body.raw
                              [] k = "mime-type" -> headers["content-type"]
                              [] OTHER -> url])]
    ELSE IF "access_token" \in DOMAIN body.qs
    THEN [ok |-> TRUE,
          result |-> Dict([k \in {"access_token", "expires"} \cap DOMAIN body.qs
                            |-> body.qs[k]])]
    ELSE [ok |-> FALSE, result |-> Null]

\* a bug: the comparison of line 255 is strict
IsErrorStatus_Above(status_code) == status_code > ErrorStatus

\* line 255
IsErrorStatus(status_code) == status_code >= ErrorStatus

\* a bug: lines 258-259 are missing, an empty result falls through
HandleResponse_FalsyPasses(status_code, headers, body, url) ==
    LET p == ParseBody(headers, body, url)
        result == p.result
        Raise(e) == [raised |-> TRUE, result |-> Null, error |-> e]
    IN  IF ~p.ok THEN Raise(GraphAPIError(NotParsedMessage, status_code))
        ELSE IF IsErrorStatus(status_code) /\ Truthy(result)
        THEN Raise(GraphAPIError(result, status_code))
        ELSE IF Truthy(result) /\ IsDict(result)
                /\ "error" \in DOMAIN result.v
                /\ DOMAIN result.v["error"] # {}
        THEN Raise(GraphAPIError(result, status_code))
        ELSE [raised |-> FALSE, result |-> result,
              error |-> GraphAPIError(Null, 0)]

\* _handle_response: [raised, result, error]
HandleResponse(status_code, headers, body, url) ==
    LET p == ParseBody(headers, body, url)
        result == p.result
        Raise(e) == [raised |-> TRUE, result |-> Null, error |-> e]
    IN  IF ~p.ok THEN Raise(GraphAPIError(NotParsedMessage, status_code))
        ELSE IF IsErrorStatus(status_code)
        THEN IF Truthy(result) THEN Raise(GraphAPIError(result, status_code))
             ELSE Raise(GraphAPIError(StatusMessage, status_code))
        ELSE IF Truthy(result) /\ IsDict(result)
                /\ "error" \in DOMAIN result.v
                /\ DOMAIN result.v["error"] # {}
        THEN Raise(GraphAPIError(result, status_code))
        ELSE [raised |-> FALSE, result |-> result,
              error |-> GraphAPIError(Null, 0)]

\* ------------------------------------------------------------ the server
U1 == <<"https://graph.facebook.com/me/feed?after=1">>
U2 == <<"https://graph.facebook.com/me/feed?after=2">>
ErrorBody(code) ==
    JsonBody(Dict([error |-> [message |-> "m", code |-> code]]))

\* what the transport may answer to one HTTP call
Responses ==
    << \* pages that carry a continuation URL
       Response(200, "", JsonBody(Dict([data |-> <<"x">>, paging |-> [next |-> U1]]))),
       Response(200, "", JsonBody(Dict([data |-> <<"y">>, paging |-> [next |-> U2]]))),
       Response(200, "", JsonBody(Dict([paging |-> [next |-> U1]]))),
       \* pages that carry none
       Response(200, "", JsonBody(Dict([data |-> <<"x">>]))),
       Response(200, "", JsonBody(Dict([data |-> <<"y">>, paging |-> [previous |-> U1]]))),
       Response(200, "", JsonBody(Dict([id |-> "1"]))),
       Response(200, "", JsonBody(Dict([data |-> <<>>]))),
       Response(200, "", JsonBody(Dict(EmptyMap))),
       \* successes that are no JSON mapping, or no JSON at all
       Response(200, "", JsonBody(Bool(TRUE))),
       Response(200, "", JsonBody(List(<<"x">>))),
       Response(200, "image/png", TextBody(EmptyMap, <<"b1", "b2">>)),
       Response(200, "", TextBody([access_token |-> "tok", expires |-> "60"], <<>>)),
       \* errors
       Response(200, "", ErrorBody(ERROR_CODE_TYPE_2)),
       Response(500, "", ErrorBody(ERROR_CODE_TYPE_2)),
       Response(200, "", ErrorBody(190)),
       Response(400, "", ErrorBody(190)),
       Response(400, "", JsonBody(Dict([error |-> [message |-> "m"]]))),
       Response(400, "", JsonBody(Dict([error_description |-> "d"]))),
       Response(400, "", JsonBody(Dict([data |-> <<"x">>, paging |-> [next |-> U1]]))),
       Response(500, "", JsonBody(Dict(EmptyMap))),
       Response(200, "text/html", TextBody(EmptyMap, <<"b1">>)),
       Response(500, "image/png", TextBody(EmptyMap, <<"b1">>)) >>

\* ------------------------------------------------------------ request inputs
NoPostArgs == [given |-> FALSE, v |-> EmptyMap]
PostArgs(m) == [given |-> TRUE, v |-> m]

Tokens == <<"", "T">>
Methods == <<"", "POST", "PUT", "DELETE">>
Paths == << <<"me">>, <<"me", "?", "fields=id">> >>
QueryArgs == <<EmptyMap, [q |-> "1"]>>
PostArgsInputs == <<NoPostArgs, PostArgs(EmptyMap), PostArgs([message |-> "hi"])>>

\* lines 273-279: the credential goes to post_args when they are given,
\* otherwise to args
MergedArgs(token, a, pa) ==
    IF token # "" /\ ~pa.given THEN Update(a, [access_token |-> token]) ELSE a

MergedPostArgs(token, a, pa) ==
    IF token # "" /\ pa.given
    THEN PostArgs(Update(pa.v, [access_token |-> token]))
    ELSE pa

\* line 280
MethodOrGet(m) == IF m = "" THEN "GET" ELSE m

\* ------------------------------------------------------------ state
VARIABLES
    \* the session (GraphAPI.__init__)
    access_token, follow_paging, error_code_2_retries, error_code_2_sleeptime,
    batch_request, has_requests_stack, requests_stack,
    \* the with blocks on the session that were entered and not yet left
    open_scopes,
    \* the locals of the call of request in progress
    pc, method, url, args, post_args, result, data, pages_seen,
    next_result, next_url, attempt,
    \* how the last call ended and what it did
    op, outcome, retval, exc, ncalls, fetch_calls, nsleeps, last_call,
    last_reply, pages, prev_stack, last_input, batch_response,
    \* a module-level function or constructor called on its own: its
    \* arguments and what it gave
    fn_args, fn_result

session == <<access_token, follow_paging, error_code_2_retries,
             error_code_2_sleeptime>>
batch == <<batch_request, has_requests_stack, requests_stack, open_scopes>>
locals == <<pc, method, url, args, post_args, result, data, pages_seen,
            next_result, next_url, attempt>>
observed == <<op, outcome, retval, exc, ncalls, fetch_calls, nsleeps,
              last_call, last_reply, pages, prev_stack, last_input,
              batch_response>>
pure == <<fn_args, fn_result>>
vars == <<session, batch, locals, observed, pure>>

NoCall == [kind |-> "none", method |-> "", url |-> <<>>, params |-> EmptyMap,
           data |-> NoPostArgs, slept |-> FALSE]
NoError == GraphAPIError(Null, 0)
\* what the last HTTP call was answered with, as _handle_response read it
NoReply == [status_code |-> 0, raised |-> FALSE, type |-> EmptyType]
ReplyOf(r, h) ==
    [status_code |-> r.status_code, raised |-> h.raised,
     type |-> IF h.raised THEN h.error.type ELSE EmptyType]
\* what request was called with in batch mode, after lines 273-280
NoInput == [path |-> <<>>, args |-> EmptyMap, post_args |-> NoPostArgs,
            method |-> ""]

\* execute's batch_response: what the transport did with the one POST
Reply(kind, body) == [kind |-> kind, body |-> body]
NoBatchResponse == Reply("none", TextBody(EmptyMap, <<>>))

\* nothing was called on its own
NoArgs == [fn |-> ""]
NotApplied == [done |-> FALSE, v |-> Null]
Applied(v) == [done |-> TRUE, v |-> v]

\* an operation that makes no HTTP call has ended
Quiet(o, how) ==
    /\ op' = o /\ outcome' = how /\ retval' = Null /\ exc' = NoError
    /\ ncalls' = 0 /\ fetch_calls' = 0 /\ nsleeps' = 0 /\ last_call' = NoCall
    /\ last_reply' = NoReply /\ pages' = <<>>
    /\ batch_response' = NoBatchResponse

\* no call of request in progress: its locals are gone
NoLocals ==
    /\ pc' = "idle"
    /\ method' = ""
    /\ url' = <<>>
    /\ args' = EmptyMap
    /\ post_args' = NoPostArgs
    /\ result' = Null
    /\ data' = <<>>
    /\ pages_seen' = 0
    /\ next_result' = Null
    /\ next_url' = <<>>
    /\ attempt' = 0

\* line 101, and no method called yet
Fresh ==
    /\ batch_request = FALSE
    /\ has_requests_stack = FALSE
    /\ requests_stack = <<>>
    /\ open_scopes = 0
    /\ pc = "idle" /\ method = "" /\ url = <<>> /\ args = EmptyMap
    /\ post_args = NoPostArgs /\ result = Null /\ data = <<>>
    /\ pages_seen = 0 /\ next_result = Null /\ next_url = <<>> /\ attempt = 0
    /\ op = "none" /\ outcome = "none" /\ retval = Null /\ exc = NoError
    /\ ncalls = 0 /\ fetch_calls = 0 /\ nsleeps = 0 /\ last_call = NoCall
    /\ last_reply = NoReply /\ pages = <<>>
    /\ prev_stack = <<>> /\ last_input = NoInput
    /\ batch_response = NoBatchResponse

Init ==
    /\ access_token \in {Tokens[i] : i \in 1..Len(Tokens)}
    /\ follow_paging \in BOOLEAN
    /\ error_code_2_retries \in 0..MaxRetries
    /\ error_code_2_sleeptime \in {0, 1}
    /\ Fresh
    /\ fn_args = NoArgs /\ fn_result = NotApplied

\* ------------------------------------------------------------ request
\* (next_result.get('paging') or {}).get('next'); <<>> when there is none
NextUrl(page) == Get(Get(page.v, "paging", EmptyMap), "next", <<>>)

Normalize(r) == HandleResponse(r.status_code, r.headers, r.body, r.url)

\* the response is a page that carries a continuation URL
Continues(r) ==
    LET h == Normalize(r)
    IN  ~h.raised /\ IsDict(h.result) /\ NextUrl(h.result) # <<>>

\* the server's chains of pages are at most MaxPages long
ServerMay(r, n) == n >= MaxPages => ~Continues(r)

\* lines 391-393
Finish(res, d, ps) ==
    LET withData == IF d # <<>> THEN Update(res.v, [data |-> d]) ELSE res.v
    IN  Dict(Update(withData, [pages_seen |-> ps]))

\* a bug: every error of the initial attempt is retried
RaiseOnFirstAttempt_AnyError(e) == error_code_2_retries = 0

\* line 316: the initial attempt's error is raised, not retried
RaiseOnFirstAttempt(e) ==
    e.type # ERROR_CODE_TYPE_2 \/ error_code_2_retries = 0

\* a bug: the loop gives up one retry early
RaiseOnRetry_OneShort(e, i) ==
    e.type # ERROR_CODE_TYPE_2 \/ i + 1 >= error_code_2_retries

\* line 333: retry number i's error is raised
RaiseOnRetry(e, i) ==
    e.type # ERROR_CODE_TYPE_2 \/ i = error_code_2_retries

\* line 364
RaiseOnPagedFirstAttempt(e) ==
    e.type # ERROR_CODE_TYPE_2 \/ error_code_2_retries = 0

\* line 381
RaiseOnPagedRetry(e, i) ==
    e.type # ERROR_CODE_TYPE_2 \/ i = error_code_2_retries

\* lines 326-329: time.sleep before a retry
Sleeps == IF error_code_2_sleeptime # 0 THEN 1 ELSE 0

\* lines 300-305: what _do_request_response hands to requests.request
FirstCall(slept) ==
    [kind |-> "first", method |-> method, url |-> url, params |-> args,
     data |-> post_args, slept |-> slept]

\* lines 351-353: what _do_paged_request_response hands to requests.request
PagedCall(slept) ==
    [kind |-> "paged", method |-> method, url |-> next_url,
     params |-> EmptyMap, data |-> NoPostArgs, slept |-> slept]

Return(v) ==
    /\ outcome' = "returned" /\ retval' = v /\ exc' = NoError
    /\ NoLocals

Raise(e) ==
    /\ outcome' = "raised" /\ retval' = Null /\ exc' = e
    /\ fetch_calls' = fetch_calls + 1 /\ pages' = pages
    /\ NoLocals

\* an exception that is no GraphAPIError leaves request
Crash ==
    /\ outcome' = "crashed" /\ retval' = Null /\ exc' = NoError
    /\ NoLocals

\* another attempt of the same fetch follows
TryAgain(i) ==
    /\ attempt' = i
    /\ fetch_calls' = fetch_calls + 1
    /\ UNCHANGED <<pc, method, url, args, post_args, result, data, pages_seen,
                   next_result, next_url, outcome, retval, exc, pages>>

\* a bug: the follow-up fetch goes on with the retries the last fetch left
PagingLoop_SharedBudget(res, d, ps, page, calls) ==
    IF NextUrl(page) = <<>>
    THEN Return(Finish(res, d, ps)) /\ fetch_calls' = calls
    ELSE /\ pc' = "paged"
         /\ fetch_calls' = 0
         /\ next_url' = NextUrl(page)
         /\ next_result' = page
         /\ result' = res /\ data' = d /\ pages_seen' = ps
         /\ attempt' = attempt
         /\ args' = EmptyMap /\ post_args' = NoPostArgs /\ url' = <<>>
         /\ UNCHANGED <<method, outcome, retval, exc>>

\* lines 346-348 and 391-394: the head of the paging loop, after a page
PagingLoop(res, d, ps, page, calls) ==
    IF NextUrl(page) = <<>>
    THEN Return(Finish(res, d, ps)) /\ fetch_calls' = calls
    ELSE /\ pc' = "paged"
         /\ fetch_calls' = 0
         /\ next_url' = NextUrl(page)
         /\ next_result' = page
         /\ result' = res /\ data' = d /\ pages_seen' = ps
         /\ attempt' = 0
         \* args, post_args and url belong to _do_request_response, which is
         \* not called again
         /\ args' = EmptyMap /\ post_args' = NoPostArgs /\ url' = <<>>
         /\ UNCHANGED <<method, outcome, retval, exc>>

\* a bug: the paging loop runs whatever follow_paging says
FirstPage_AlwaysPaging(page, calls) ==
    IF ~IsDict(page)
    THEN Crash /\ pages' = pages /\ fetch_calls' = calls
    ELSE /\ pages' = <<page>>
         /\ PagingLoop(Dict(Del(page.v, "paging")),
                       Get(page.v, "data", <<>>), 1, page, calls)

\* lines 337-348: the first page was fetched
FirstPage(page, calls) ==
    IF ~IsDict(page)
    THEN Crash /\ pages' = pages /\ fetch_calls' = calls
    ELSE /\ pages' = <<page>>
         /\ IF ~follow_paging
            THEN Return(page) /\ fetch_calls' = calls
            ELSE PagingLoop(Dict(Del(page.v, "paging")),
                            Get(page.v, "data", <<>>), 1, page, calls)

\* a bug: the page's data goes in front of the aggregate
PagedPage_Prepend(page, calls) ==
    IF ~IsDict(page)
    THEN Crash /\ pages' = pages /\ fetch_calls' = calls
    ELSE /\ pages' = Append(pages, page)
         /\ PagingLoop(result, Get(page.v, "data", <<>>) \o data,
                       pages_seen + 1, page, calls)

\* lines 389-390 and back to the head of the loop
PagedPage(page, calls) ==
    IF ~IsDict(page)
    THEN Crash /\ pages' = pages /\ fetch_calls' = calls
    ELSE /\ pages' = Append(pages, page)
         /\ PagingLoop(result, data \o Get(page.v, "data", <<>>),
                       pages_seen + 1, page, calls)

\* a bug: the aggregate is not attached to the error
WithPartial_NoData(e) ==
    [e EXCEPT !.pages_seen = pages_seen, !.partial = TRUE]

\* lines 385-388
WithPartial(e) ==
    [e EXCEPT !.data = data, !.pages_seen = pages_seen, !.partial = TRUE]

\* lines 264-280 and 296: request outside batch mode, up to the first fetch
RequestFetch(path, a, pa, m) ==
    /\ pc = "idle"
    /\ ~batch_request
    \* request keeps nothing on the session outside batch mode: the model
    \* follows one such call, the first call of request or execute
    /\ op \in {"none", "enter", "exit"}
    /\ pc' = "first"
    /\ method' = MethodOrGet(m)
    /\ url' = <<BASE_URL, "/">> \o path
    /\ args' = MergedArgs(access_token, a, pa)
    /\ post_args' = MergedPostArgs(access_token, a, pa)
    /\ result' = Null /\ data' = <<>> /\ pages_seen' = 0
    /\ next_result' = Null /\ next_url' = <<>> /\ attempt' = 0
    /\ Quiet("request", "none")
    /\ prev_stack' = <<>> /\ last_input' = NoInput
    /\ UNCHANGED <<session, batch, pure>>

\* one HTTP call of request and what it was answered with
Attempt(r, call, sleeps) ==
    /\ ncalls' = ncalls + 1
    /\ nsleeps' = nsleeps + sleeps
    /\ last_call' = call
    /\ last_reply' = ReplyOf(r, Normalize(r))
    /\ UNCHANGED <<session, batch, op, prev_stack, last_input, batch_response,
                   pure>>

\* lines 312-317: the initial attempt of the first fetch
DoRequestResponse(r) ==
    /\ pc = "first" /\ attempt = 0
    /\ ServerMay(r, 1)
    /\ Attempt(r, FirstCall(FALSE), 0)
    /\ LET h == Normalize(r)
       IN  IF h.raised
           THEN IF RaiseOnFirstAttempt(h.error)
                THEN Raise(h.error)
                ELSE TryAgain(1)
           ELSE FirstPage(h.result, fetch_calls + 1)

\* lines 322-334: one retry of the first fetch
RetryRequestResponse(r) ==
    /\ pc = "first" /\ attempt >= 1
    /\ ServerMay(r, 1)
    /\ Attempt(r, FirstCall(Sleeps = 1), Sleeps)
    /\ LET h == Normalize(r)
       IN  IF h.raised
           THEN IF RaiseOnRetry(h.error, attempt)
                THEN Raise(h.error)
                ELSE TryAgain(attempt + 1)
           ELSE FirstPage(h.result, fetch_calls + 1)

\* a bug: the delay also comes before the initial attempt of a follow-up fetch
DoPagedRequestResponse_SleepsFirst(r) ==
    /\ pc = "paged" /\ attempt = 0
    /\ ServerMay(r, pages_seen + 1)
    /\ Attempt(r, PagedCall(Sleeps = 1), Sleeps)
    /\ LET h == Normalize(r)
       IN  IF h.raised
           THEN IF RaiseOnPagedFirstAttempt(h.error)
                THEN Raise(WithPartial(h.error))
                ELSE TryAgain(1)
           ELSE PagedPage(h.result, fetch_calls + 1)

\* lines 360-365 and 383-390: the initial attempt of a follow-up fetch
DoPagedRequestResponse(r) ==
    /\ pc = "paged" /\ attempt = 0
    /\ ServerMay(r, pages_seen + 1)
    /\ Attempt(r, PagedCall(FALSE), 0)
    /\ LET h == Normalize(r)
       IN  IF h.raised
           THEN IF RaiseOnPagedFirstAttempt(h.error)
                THEN Raise(WithPartial(h.error))
                ELSE TryAgain(1)
           ELSE PagedPage(h.result, fetch_calls + 1)

\* lines 370-390: one retry of a follow-up fetch
RetryPagedRequestResponse(r) ==
    /\ pc = "paged" /\ attempt >= 1
    /\ ServerMay(r, pages_seen + 1)
    /\ Attempt(r, PagedCall(Sleeps = 1), Sleeps)
    /\ LET h == Normalize(r)
       IN  IF h.raised
           THEN IF RaiseOnPagedRetry(h.error, attempt)
                THEN Raise(WithPartial(h.error))
                ELSE TryAgain(attempt + 1)
           ELSE PagedPage(h.result, fetch_calls + 1)

\* ------------------------------------------------------------ batch mode
\* the order in which urllib.urlencode walks the keys of a mapping
KeyOrder == <<"q", "message", "access_token">>

RECURSIVE UrlEncodeFrom(_, _)
UrlEncodeFrom(m, i) ==
    IF i > Len(KeyOrder) THEN <<>>
    ELSE LET k == KeyOrder[i]
             rest == UrlEncodeFrom(m, i + 1)
         IN  IF k \notin DOMAIN m THEN rest
             ELSE IF rest = <<>> THEN <<k \o "=" \o m[k]>>
             ELSE <<k \o "=" \o m[k], "&">> \o rest

\* urllib.urlencode: k=v pairs joined by &
UrlEncode(m) == UrlEncodeFrom(m, 1)

\* '?' in path
HasQuery(path) == \E i \in 1..Len(path) : path[i] = "?"

\* lines 288-290
RelativeUrl(path, a) ==
    IF DOMAIN a = {} THEN path
    ELSE path \o <<IF HasQuery(path) THEN "&" ELSE "?">> \o UrlEncode(a)

\* a bug: the body is emitted whatever the method
HasBody_AnyMethod(m, pa) == pa.given /\ DOMAIN pa.v # {}

\* line 286
HasBody(m, pa) == m \in {"POST", "PUT"} /\ pa.given /\ DOMAIN pa.v # {}

\* lines 285-292: the descriptor of one captured request, after lines 273-280
Descriptor(path, a, pa, m) ==
    LET head == [method |-> m, relative_url |-> RelativeUrl(path, a)]
    IN  IF HasBody(m, pa) THEN Update(head, [body |-> UrlEncode(pa.v)])
        ELSE head

\* lines 103-106
Enter ==
    /\ pc = "idle"
    /\ open_scopes < MaxScopes
    /\ open_scopes' = open_scopes + 1
    /\ batch_request' = TRUE
    /\ has_requests_stack' = TRUE
    /\ requests_stack' = <<>>
    /\ Quiet("enter", "returned")
    /\ prev_stack' = <<>> /\ last_input' = NoInput
    /\ UNCHANGED <<session, locals, pure>>

\* lines 108-109
Exit ==
    /\ pc = "idle"
    \* a with block is left only after it was entered
    /\ open_scopes > 0
    /\ open_scopes' = open_scopes - 1
    /\ batch_request' = FALSE
    /\ Quiet("exit", "returned")
    /\ prev_stack' = <<>> /\ last_input' = NoInput
    /\ UNCHANGED <<session, has_requests_stack, requests_stack, locals, pure>>

\* lines 264-294: request in batch mode
RequestBatch(path, a, pa, m) ==
    /\ pc = "idle"
    /\ batch_request
    /\ Len(requests_stack) < MaxStack
    /\ requests_stack' =
          Append(requests_stack,
                 Descriptor(path, MergedArgs(access_token, a, pa),
                            MergedPostArgs(access_token, a, pa),
                            MethodOrGet(m)))
    /\ Quiet("request", "returned")
    /\ prev_stack' = requests_stack
    /\ last_input' = [path |-> path, args |-> MergedArgs(access_token, a, pa),
                      post_args |-> MergedPostArgs(access_token, a, pa),
                      method |-> MethodOrGet(m)]
    /\ UNCHANGED <<session, batch_request, has_requests_stack, open_scopes,
                   locals, pure>>

\* json.dumps: a JSON text is written as the body json.loads reads it as
JsonDumps(stack) == JsonBody(List(stack))

\* lines 397-399
BatchPostArgs ==
    LET b == [batch |-> JsonDumps(requests_stack)]
    IN  PostArgs(IF access_token # "" THEN Update(b, [access_token |-> access_token])
                 ELSE b)

\* lines 404-406
BatchCall ==
    [kind |-> "batch", method |-> "POST", url |-> <<BASE_URL>>,
     params |-> EmptyMap, data |-> BatchPostArgs, slept |-> FALSE]

\* lines 424-426: the header mapping of one item of the batch response
RECURSIVE HeaderMap(_)
HeaderMap(hs) ==
    IF hs = <<>> THEN EmptyMap
    ELSE Update(HeaderMap(SubSeq(hs, 1, Len(hs) - 1)),
                [k \in {hs[Len(hs)].name} |-> hs[Len(hs)].value])

Entry(kind, value, error) == [kind |-> kind, value |-> value, error |-> error]

\* lines 423-432: one item of the batch response becomes one entry
ItemEntry(item) ==
    IF ~IsDict(item) \/ ~({"code", "body"} \subseteq DOMAIN item.v)
    THEN Entry("exception", Null, NoError)
    ELSE LET h == HandleResponse(item.v["code"],
                                 HeaderMap(Get(item.v, "headers", <<>>)),
                                 item.v["body"], <<>>)
         IN  IF h.raised THEN Entry("GraphAPIError", Null, h.error)
             ELSE Entry("result", h.result, NoError)

\* a bug: the first item that fails ends the loop
RECURSIVE BatchResponses_AbortOnFailure(_)
BatchResponses_AbortOnFailure(items) ==
    IF items = <<>> THEN <<>>
    ELSE IF ItemEntry(Head(items)).kind # "result"
    THEN <<ItemEntry(Head(items))>>
    ELSE <<ItemEntry(Head(items))>> \o BatchResponses_AbortOnFailure(Tail(items))

\* lines 421-433: the loop over the items of the batch response
BatchResponses(items) == [i \in 1..Len(items) |-> ItemEntry(items[i])]

\* what iterating batch_response.json() yields
Items(j) ==
    CASE j.t = "list" -> j.v
      [] j.t = "dict" -> [i \in 1..Len(KeyOrder) |-> Str(KeyOrder[i])]
      [] OTHER -> <<>>

Iterable(j) == j.t \in {"list", "dict"}

\* a bug: the submission is made again, error_code_2_retries times, when an
\* item of the response has classification 2
Execute_RetriesItems(reply) ==
    /\ pc = "idle"
    /\ op' = "execute"
    /\ fetch_calls' = 0 /\ nsleeps' = 0 /\ pages' = <<>>
    /\ last_reply' = NoReply /\ prev_stack' = <<>> /\ last_input' = NoInput
    /\ IF ~has_requests_stack
       THEN \* AttributeError at line 397
            /\ outcome' = "crashed" /\ retval' = Null /\ exc' = NoError
            /\ ncalls' = 0 /\ last_call' = NoCall
            /\ batch_response' = NoBatchResponse
       ELSE /\ ncalls' = IF /\ reply.kind = "ok" /\ reply.body.fmt = "json"
                           /\ Iterable(reply.body.json)
                           /\ \E k \in 1..Len(Items(reply.body.json)) :
                                 LET e == ItemEntry(Items(reply.body.json)[k])
                                 IN  e.kind = "GraphAPIError"
                                     /\ e.error.type = ERROR_CODE_TYPE_2
                        THEN 1 + error_code_2_retries
                        ELSE 1
            /\ last_call' = BatchCall
            /\ batch_response' = reply
            /\ CASE reply.kind = "network" ->
                      \* no requests.HTTPError: lines 408-420 do not catch it
                      /\ outcome' = "crashed" /\ retval' = Null
                      /\ exc' = NoError
                 [] reply.kind = "http" ->
                      /\ outcome' = "raised" /\ retval' = Null
                      /\ exc' = IF reply.body.fmt = "json" /\ Truthy(reply.body.json)
                                THEN GraphAPIError(reply.body.json, 0)
                                ELSE GraphAPIError(Str("HTTPError"), 0)
                 [] OTHER ->
                      IF reply.body.fmt # "json" \/ ~Iterable(reply.body.json)
                      THEN /\ outcome' = "crashed" /\ retval' = Null
                           /\ exc' = NoError
                      ELSE LET items == Items(reply.body.json)
                           IN  /\ outcome' = "returned"
                               /\ retval' = List(BatchResponses(items))
                               /\ exc' = NoError
    /\ UNCHANGED <<session, batch, locals, pure>>

\* lines 396-433; reply is what the transport does with the one POST
Execute(reply) ==
    /\ pc = "idle"
    /\ op' = "execute"
    /\ fetch_calls' = 0 /\ nsleeps' = 0 /\ pages' = <<>>
    /\ last_reply' = NoReply /\ prev_stack' = <<>> /\ last_input' = NoInput
    /\ IF ~has_requests_stack
       THEN \* AttributeError at line 397
            /\ outcome' = "crashed" /\ retval' = Null /\ exc' = NoError
            /\ ncalls' = 0 /\ last_call' = NoCall
            /\ batch_response' = NoBatchResponse
       ELSE /\ ncalls' = 1 /\ last_call' = BatchCall
            /\ batch_response' = reply
            /\ CASE reply.kind = "network" ->
                      \* no requests.HTTPError: lines 408-420 do not catch it
                      /\ outcome' = "crashed" /\ retval' = Null
                      /\ exc' = NoError
                 [] reply.kind = "http" ->
                      /\ outcome' = "raised" /\ retval' = Null
                      /\ exc' = IF reply.body.fmt = "json" /\ Truthy(reply.body.json)
                                THEN GraphAPIError(reply.body.json, 0)
                                ELSE GraphAPIError(Str("HTTPError"), 0)
                 [] OTHER ->
                      IF reply.body.fmt # "json" \/ ~Iterable(reply.body.json)
                      THEN /\ outcome' = "crashed" /\ retval' = Null
                           /\ exc' = NoError
                      ELSE LET items == Items(reply.body.json)
                           IN  /\ outcome' = "returned"
                               /\ retval' = List(BatchResponses(items))
                               /\ exc' = NoError
    /\ UNCHANGED <<session, batch, locals, pure>>

Item(code, headers, body) ==
    Dict([code |-> code, headers |-> headers, body |-> body])
PageItem ==
    Item(200, <<[name |-> "Content-Type", value |-> "text/javascript"]>>,
         JsonBody(Dict([data |-> <<"x">>, paging |-> [next |-> U1]])))
TransientItem == Item(200, <<>>, ErrorBody(ERROR_CODE_TYPE_2))
GarbageItem == Item(200, <<>>, TextBody(EmptyMap, <<"b1">>))
FailedItem == Item(500, <<>>, JsonBody(Dict([id |-> "1"])))
ImageItem ==
    Item(200, <<[name |-> "content-type", value |-> "image/png"]>>,
         TextBody(EmptyMap, <<"b1">>))

\* what the transport may do with the batch POST
Replies ==
    << Reply("network", TextBody(EmptyMap, <<>>)),
       Reply("http", ErrorBody(ERROR_CODE_TYPE_2)),
       Reply("http", TextBody(EmptyMap, <<"b1">>)),
       Reply("ok", JsonBody(List(<<>>))),
       Reply("ok", JsonBody(List(<<PageItem>>))),
       Reply("ok", JsonBody(List(<<TransientItem, PageItem>>))),
       Reply("ok", JsonBody(List(<<PageItem, GarbageItem, FailedItem>>))),
       Reply("ok", JsonBody(List(<<Null, PageItem>>))),
       Reply("ok", JsonBody(List(<<PageItem, GarbageItem, ImageItem>>))),
       Reply("ok", ErrorBody(190)),
       Reply("ok", TextBody(EmptyMap, <<"b1">>)) >>

\* the calls captured after the first one of a scope
LaterCalls ==
    << <<Paths[1], QueryArgs[1], NoPostArgs, "">>,
       <<Paths[2], QueryArgs[2], NoPostArgs, "DELETE">>,
       <<Paths[1], QueryArgs[2], PostArgs([message |-> "hi"]), "POST">>,
       <<Paths[1], QueryArgs[1], PostArgs(EmptyMap), "PUT">>,
       <<Paths[1], QueryArgs[1], PostArgs([message |-> "hi"]), "">> >>

\* ------------------------------------------------------------ specification
Request ==
    \E p \in 1..Len(Paths), a \in 1..Len(QueryArgs),
       pa \in 1..Len(PostArgsInputs), m \in 1..Len(Methods) :
        RequestFetch(Paths[p], QueryArgs[a], PostArgsInputs[pa], Methods[m])

FirstAttempt == \E i \in 1..Len(Responses) : DoRequestResponse(Responses[i])
FirstRetry == \E i \in 1..Len(Responses) : RetryRequestResponse(Responses[i])
PagedAttempt == \E i \in 1..Len(Responses) : DoPagedRequestResponse(Responses[i])
PagedRetry == \E i \in 1..Len(Responses) : RetryPagedRequestResponse(Responses[i])

Next ==
    \/ Request
    \/ FirstAttempt
    \/ FirstRetry
    \/ PagedAttempt
    \/ PagedRetry

Spec == Init /\ [][Next]_vars

\* the first capture of a scope ranges over every combination of inputs
CaptureFirst ==
    /\ requests_stack = <<>>
    /\ \E p \in 1..Len(Paths), a \in 1..Len(QueryArgs),
          pa \in 1..Len(PostArgsInputs), m \in 1..Len(Methods) :
           RequestBatch(Paths[p], QueryArgs[a], PostArgsInputs[pa], Methods[m])

CaptureLater ==
    /\ requests_stack # <<>>
    /\ \E i \in 1..Len(LaterCalls) :
           RequestBatch(LaterCalls[i][1], LaterCalls[i][2], LaterCalls[i][3],
                        LaterCalls[i][4])

ExecuteBatch == \E i \in 1..Len(Replies) : Execute(Replies[i])

BatchNext ==
    \/ Enter
    \/ Exit
    \/ CaptureFirst
    \/ CaptureLater
    \/ ExecuteBatch

\* a session constructed with the default retry settings (line 89)
BatchInit ==
    /\ Init
    /\ error_code_2_retries = 0
    /\ error_code_2_sleeptime = 0

BatchSpec == BatchInit /\ [][BatchNext]_vars

\* execute on sessions constructed with every retry configuration: a scope is
\* entered, requests are captured and the buffer is executed
CaptureAny ==
    \E i \in 1..Len(LaterCalls) :
        RequestBatch(LaterCalls[i][1], LaterCalls[i][2], LaterCalls[i][3],
                     LaterCalls[i][4])

ExecuteNext ==
    \/ Enter
    \/ CaptureAny
    \/ ExecuteBatch

ExecuteSpec == Init /\ [][ExecuteNext]_vars

\* ------------------------------------------------------------ _handle_response
\* the responses _handle_response is called with on its own
StatusCodes == <<200, 201, 302, 399, 400, 404, 500>>
ContentTypes == <<"", "image/png", "text/html">>
Bodies ==
    << JsonBody(Dict([id |-> "1"])),
       JsonBody(Dict([data |-> <<"x">>, paging |-> [next |-> U1]])),
       JsonBody(Dict([error_description |-> "d"])),
       JsonBody(Dict([error |-> [message |-> "m", code |-> 190]])),
       JsonBody(Dict(EmptyMap)),
       JsonBody(List(<<>>)),
       JsonBody(List(<<"x">>)),
       JsonBody(Null),
       JsonBody(Bool(FALSE)),
       JsonBody(Bool(TRUE)),
       JsonBody(Str("")),
       JsonBody(Str("error")),
       TextBody(EmptyMap, <<"b1">>),
       TextBody(EmptyMap, <<>>),
       TextBody([access_token |-> "tok"], <<"b1">>),
       TextBody([access_token |-> "tok", expires |-> "60"], <<"b1">>),
       TextBody([expires |-> "60"], <<"b1">>) >>

HandleArgs(status_code, content_type, body) ==
    [fn |-> "_handle_response", status_code |-> status_code,
     headers |-> Response(status_code, content_type, body).headers,
     body |-> body, url |-> <<"final">>]

\* a session with the defaults of line 89 on which no method is called
Unused ==
    /\ access_token = "" /\ follow_paging = TRUE
    /\ error_code_2_retries = 0 /\ error_code_2_sleeptime = 0
    /\ Fresh

HandleInit ==
    /\ Unused
    /\ \E c \in 1..Len(StatusCodes), t \in 1..Len(ContentTypes),
          b \in 1..Len(Bodies) :
           fn_args = HandleArgs(StatusCodes[c], ContentTypes[t], Bodies[b])
    /\ fn_result = NotApplied

\* lines 233-262, called on its own
HandleResponseCall ==
    /\ fn_args.fn = "_handle_response"
    /\ ~fn_result.done
    /\ fn_result' = Applied(HandleResponse(fn_args.status_code, fn_args.headers,
                                           fn_args.body, fn_args.url))
    /\ UNCHANGED <<session, batch, locals, observed, fn_args>>

HandleNext == HandleResponseCall

HandleSpec == HandleInit /\ [][HandleNext]_vars

\* ------------------------------------------------------------ parse_signed_request
\* A text is a sequence of characters.  A character of the base64url alphabet
\* is written as its 6-bit value 0..63; the three below stand for '=', '.'
\* and any character outside the alphabet.  A byte is a number 0..255.
PadChar == 64
DotChar == 65
JunkChar == 66

IsB64(c) == c >= 0 /\ c < PadChar

\* binascii_find_valid(s, slen, 1) at a '=' in position i: the next character
\* after it that the table knows ('=' included), -1 when there is none
RECURSIVE FindValid(_, _)
FindValid(text, i) ==
    IF i >= Len(text) THEN -1
    ELSE IF IsB64(text[i + 1]) \/ text[i + 1] = PadChar THEN text[i + 1]
    ELSE FindValid(text, i + 1)

\* binascii.a2b_base64 from position i on: [ok, bytes]; ok is FALSE for
\* "Incorrect padding", which base64 raises as TypeError
RECURSIVE A2bBase64(_, _, _, _, _, _)
A2bBase64(text, i, leftchar, leftbits, quad_pos, out) ==
    IF i > Len(text)
    THEN [ok |-> leftbits = 0, bytes |-> out]
    ELSE LET c == text[i]
         IN  IF c = PadChar
             THEN IF quad_pos < 2
                     \/ (quad_pos = 2 /\ FindValid(text, i) # PadChar)
                  THEN A2bBase64(text, i + 1, leftchar, leftbits, quad_pos, out)
                  ELSE [ok |-> TRUE, bytes |-> out]
             ELSE IF ~IsB64(c)
             THEN A2bBase64(text, i + 1, leftchar, leftbits, quad_pos, out)
             ELSE LET q == (quad_pos + 1) % 4
                      lc == leftchar * 64 + c
                      lb == leftbits + 6
                  IN  IF lb >= 8
                      THEN A2bBase64(text, i + 1, lc % (2 ^ (lb - 8)), lb - 8, q,
                                     Append(out, (lc \div (2 ^ (lb - 8))) % 256))
                      ELSE A2bBase64(text, i + 1, lc, lb, q, out)

UrlsafeB64decode(text) == A2bBase64(text, 1, 0, 0, 0, <<>>)

\* a bug: the segment is decoded as it came, without the padding
Padded_AsIs(text) == text

\* lines 582-585: text + "=" * ((4 - len(text) % 4) % 4)
Padded(text) ==
    text \o [i \in 1..((4 - (Len(text) % 4)) % 4) |-> PadChar]

\* the text base64.urlsafe_b64decode reads back as the bytes b
RECURSIVE UrlsafeB64encode(_)
UrlsafeB64encode(b) ==
    IF b = <<>> THEN <<>>
    ELSE IF Len(b) = 1
    THEN <<b[1] \div 4, (b[1] % 4) * 16, PadChar, PadChar>>
    ELSE IF Len(b) = 2
    THEN <<b[1] \div 4, (b[1] % 4) * 16 + b[2] \div 16, (b[2] % 16) * 4, PadChar>>
    ELSE <<b[1] \div 4, (b[1] % 4) * 16 + b[2] \div 16,
           (b[2] % 16) * 4 + b[3] \div 64, b[3] % 64>>
         \o UrlsafeB64encode(SubSeq(b, 4, Len(b)))

\* the same text with its trailing '=' left out, as the signer sends it
RECURSIVE Unpadded(_)
Unpadded(text) ==
    IF text # <<>> /\ text[Len(text)] = PadChar
    THEN Unpadded(SubSeq(text, 1, Len(text) - 1))
    ELSE text

\* hmac.new(key, msg, sha256).digest(): a keyed checksum two bytes wide stands
\* for the 32-byte digest
RECURSIVE Weighted(_, _)
Weighted(seq, w) ==
    IF seq = <<>> THEN 0
    ELSE (Len(seq) + w) * (seq[Len(seq)] + 1)
         + Weighted(SubSeq(seq, 1, Len(seq) - 1), w)

HmacSha256(key, msg) ==
    <<(Weighted(key, 7) + Weighted(msg, 3)) % 256,
      (Weighted(key, 11) * 5 + Weighted(msg, 13) + Len(msg)) % 256>>

\* the byte strings json.loads accepts and what it reads them as; any other
\* byte string makes it raise ValueError
JsonTexts ==
    << [text |-> <<1>>,
        json |-> Dict([algorithm |-> Str("HMAC-SHA256"), user_id |-> Str("u")])],
       [text |-> <<2, 200>>,
        json |-> Dict([algorithm |-> Str("hmac-sha256"), user_id |-> Str("v")])],
       [text |-> <<3, 150, 255>>,
        json |-> Dict([algorithm |-> Str("Hmac-Sha256")])],
       [text |-> <<4>>, json |-> Dict([user_id |-> Str("u")])],
       [text |-> <<5, 7>>, json |-> Dict([algorithm |-> Str("HMAC-SHA1")])],
       [text |-> <<6>>, json |-> Dict([algorithm |-> Null])],
       [text |-> <<7, 7, 7>>, json |-> List(<<"u">>)],
       [text |-> <<8>>, json |-> Null] >>

JsonLoads(bytes) ==
    IF \E i \in 1..Len(JsonTexts) : JsonTexts[i].text = bytes
    THEN [ok |-> TRUE,
          json |-> JsonTexts[CHOOSE i \in 1..Len(JsonTexts) :
                                 JsonTexts[i].text = bytes].json]
    ELSE [ok |-> FALSE, json |-> Null]

\* str.upper on the algorithm names of the payloads
Upper(str) ==
    CASE str \in {"hmac-sha256", "Hmac-Sha256"} -> "HMAC-SHA256"
      [] str = "hmac-sha1" -> "HMAC-SHA1"
      [] OTHER -> str

\* a bug: a payload without an algorithm field passes
AlgorithmOk_MissingPasses(payload) ==
    "algorithm" \in DOMAIN payload.v
        => Upper(payload.v["algorithm"].v) = "HMAC-SHA256"

\* line 594: data.get('algorithm', '').upper() == 'HMAC-SHA256'
AlgorithmOk(payload) ==
    Upper(Get(payload.v, "algorithm", Str("")).v) = "HMAC-SHA256"

\* signed_request.split('.', 1): the position of the first '.', 0 if none
RECURSIVE FirstDot(_, _)
FirstDot(text, i) ==
    IF i > Len(text) THEN 0
    ELSE IF text[i] = DotChar THEN i
    ELSE FirstDot(text, i + 1)

ReturnsFalse == [kind |-> "False", data |-> Null, exception |-> ""]
ReturnsData(payload) == [kind |-> "data", data |-> payload, exception |-> ""]
Raises(e) == [kind |-> "raised", data |-> Null, exception |-> e]

\* lines 569-608
ParseSignedRequest(signed_request, app_secret) ==
    LET dot == FirstDot(signed_request, 1)
        encoded_sig == SubSeq(signed_request, 1, dot - 1)
        payload == SubSeq(signed_request, dot + 1, Len(signed_request))
        sig == UrlsafeB64decode(Padded(encoded_sig))
        decoded == UrlsafeB64decode(Padded(payload))
        loaded == JsonLoads(decoded.bytes)
    IN  IF dot = 0 THEN Raises("ValueError")
        ELSE IF ~sig.ok \/ ~decoded.ok THEN ReturnsFalse
        ELSE IF ~loaded.ok THEN Raises("ValueError")
        ELSE IF ~IsDict(loaded.json) THEN Raises("AttributeError")
        ELSE IF Get(loaded.json.v, "algorithm", Str("")).t # "str"
        THEN Raises("AttributeError")
        ELSE IF ~AlgorithmOk(loaded.json) THEN ReturnsFalse
        ELSE IF sig.bytes # HmacSha256(app_secret, payload) THEN ReturnsFalse
        ELSE ReturnsData(loaded.json)

\* the token a signer holding secret makes of the payload text: the
\* signature of the encoded payload, a '.', the encoded payload
Signed(secret, text, strip) ==
    LET Enc(b) == IF strip THEN Unpadded(UrlsafeB64encode(b))
                  ELSE UrlsafeB64encode(b)
        payload == Enc(text)
    IN  Enc(HmacSha256(secret, payload)) \o <<DotChar>> \o payload

\* the same token with the first character of its signature segment changed
Forged(token) == [token EXCEPT ![1] = (token[1] + 1) % 64]

Secrets == << <<10, 20>>, <<30>> >>

\* the payload texts tokens are made of: the JSON texts and one that is none
PayloadTexts == [i \in 1..(Len(JsonTexts) + 1) |->
                    IF i <= Len(JsonTexts) THEN JsonTexts[i].text ELSE <<9, 9>>]

\* tokens that are no signature '.' payload
BrokenRequests ==
    << <<>>,
       <<DotChar>>,
       <<0, 1, 2, 3>>,
       <<0, 1, 2, 3, DotChar>>,
       <<0, DotChar, 0, 16>>,
       <<0, 16, DotChar, 5>>,
       <<JunkChar, DotChar, JunkChar>>,
       <<0, 16, PadChar, PadChar, DotChar, 0, 16, PadChar, PadChar>>,
       <<0, 16, DotChar, 0, JunkChar, 16>>,
       <<0, 16, DotChar, 0, 16, DotChar, 0, 16>> >>

SignedRequests ==
    [n \in 1..(4 * Len(Secrets) * Len(PayloadTexts)) |->
        LET k == (n - 1) % 4
            m == (n - 1) \div 4
            secret == Secrets[(m % Len(Secrets)) + 1]
            text == PayloadTexts[(m \div Len(Secrets)) + 1]
        IN  CASE k = 0 -> Signed(secret, text, FALSE)
              [] k = 1 -> Signed(secret, text, TRUE)
              [] k = 2 -> Forged(Signed(secret, text, FALSE))
              [] OTHER -> Forged(Signed(secret, text, TRUE))]
    \o BrokenRequests

TokenInit ==
    /\ Unused
    /\ \E r \in 1..Len(SignedRequests), k \in 1..Len(Secrets) :
           fn_args = [fn |-> "parse_signed_request",
                      signed_request |-> SignedRequests[r],
                      app_secret |-> Secrets[k]]
    /\ fn_result = NotApplied

ParseSignedRequestCall ==
    /\ fn_args.fn = "parse_signed_request"
    /\ ~fn_result.done
    /\ fn_result' = Applied(ParseSignedRequest(fn_args.signed_request,
                                               fn_args.app_secret))
    /\ UNCHANGED <<session, batch, locals, observed, fn_args>>

TokenNext == ParseSignedRequestCall

TokenSpec == TokenInit /\ [][TokenNext]_vars

\* ------------------------------------------------------------ GraphAPIError on its own
\* the raw results GraphAPIError is constructed from
RawResults ==
    << Dict([error_description |-> "d"]),
       Dict([error_description |-> "d", error_code |-> 100]),
       Dict([error_description |-> "d", error |-> [message |-> "m", code |-> 190]]),
       Dict([error |-> [message |-> "m", code |-> 190]]),
       Dict([error |-> [message |-> "m", code |-> ERROR_CODE_TYPE_2]]),
       Dict([error |-> [message |-> "m", code |-> 190], error_msg |-> "r"]),
       Dict([error |-> [message |-> "m"]]),
       Dict([error |-> [code |-> 190]]),
       Dict([error |-> [message |-> "m"], error_msg |-> "r"]),
       Dict([error |-> [message |-> "m"], error_code |-> 100]),
       Dict([error_msg |-> "r"]),
       Dict([error_msg |-> "r", error_code |-> 100]),
       Dict([error_code |-> 100]),
       Dict([id |-> "1"]),
       Dict(EmptyMap),
       List(<<"x">>),
       NotParsedMessage,
       Null >>

\* the status codes it is given; 0 when the caller gives none
GivenStatusCodes == <<0, 200, 400, 500>>

ErrorInit ==
    /\ Unused
    /\ \E r \in 1..Len(RawResults), c \in 1..Len(GivenStatusCodes) :
           fn_args = [fn |-> "GraphAPIError", result |-> RawResults[r],
                      status_code |-> GivenStatusCodes[c]]
    /\ fn_result = NotApplied

\* lines 505-530
GraphAPIErrorCall ==
    /\ fn_args.fn = "GraphAPIError"
    /\ ~fn_result.done
    /\ fn_result' = Applied(GraphAPIError(fn_args.result, fn_args.status_code))
    /\ UNCHANGED <<session, batch, locals, observed, fn_args>>

ErrorNext == GraphAPIErrorCall

ErrorSpec == ErrorInit /\ [][ErrorNext]_vars

\* ------------------------------------------------------------ claims
InFetch == pc \in {"first", "paged"}

\* a call of request outside batch mode has made at least one HTTP call
Fetched == op = "request" /\ ncalls > 0

\* the concatenation of the pages' data arrays, in page order
RECURSIVE ConcatData(_)
ConcatData(ps) ==
    IF ps = <<>> THEN <<>>
    ELSE Get(Head(ps).v, "data", <<>>) \o ConcatData(Tail(ps))

\* C1: when every attempt of a fetch fails with classification 2, the error
\* is raised after exactly error_code_2_retries retries, that is after
\* error_code_2_retries + 1 HTTP calls (one call when the count is 0), and no
\* retry beyond the configured count is ever pending.
C1_ExactRetries ==
    /\ (Fetched /\ outcome = "raised" /\ exc.type = ERROR_CODE_TYPE_2)
          => fetch_calls = error_code_2_retries + 1
    /\ (InFetch /\ attempt >= 1) => attempt <= error_code_2_retries

C1_Witness ==
    /\ Fetched /\ outcome = "raised" /\ exc.type = ERROR_CODE_TYPE_2
    /\ error_code_2_retries = 2 /\ fetch_calls = 3 /\ ncalls = 3

\* C2: a retry is pending only after an attempt that failed with
\* classification 2; an attempt that succeeds or fails otherwise ends the
\* fetch: its error is the one raised, its result the one kept.
C2_StopsAtFirstDecisive ==
    /\ (InFetch /\ attempt >= 1)
          => (last_reply.raised /\ last_reply.type = ERROR_CODE_TYPE_2)
    /\ (Fetched /\ outcome = "raised")
          => (last_reply.raised /\ exc.type = last_reply.type)
    /\ (Fetched /\ outcome = "returned") => ~last_reply.raised
    /\ (Fetched /\ ~last_reply.raised /\ InFetch)
          => (pc = "paged" /\ attempt = 0 /\ fetch_calls = 0)

C2_Witness ==
    /\ Fetched /\ outcome = "returned" /\ ~follow_paging
    /\ error_code_2_retries = 2 /\ ncalls = 2

\* C3 as stated: an answer with status >= 400 ends the request with the
\* error raised; it is never retried.
C3_NeverRetried ==
    (Fetched /\ last_reply.status_code >= ErrorStatus)
        => (pc = "idle" /\ outcome = "raised")

\* C3 as amended: an answer with status >= 400 always fails the attempt with
\* an API Error; the error is raised at once unless its classification is 2
\* and a retry remains, and then the fetch is retried.
C3_ErrorStatusFails ==
    (Fetched /\ last_reply.status_code >= ErrorStatus)
        => /\ last_reply.raised
           /\ IF last_reply.type = ERROR_CODE_TYPE_2
                 /\ fetch_calls <= error_code_2_retries
              THEN InFetch /\ attempt = fetch_calls
              ELSE pc = "idle" /\ outcome = "raised"

C3_Witness ==
    /\ Fetched /\ last_reply.status_code = 500
    /\ pc = "first" /\ attempt = 1

\* C4: with follow_paging, request returns the first page's mapping without
\* its paging metadata, with pages_seen the number of pages of the chain and,
\* when the aggregate is not empty, data the concatenation of the pages' data
\* in page order.
C4_Aggregate ==
    (Fetched /\ outcome = "returned" /\ follow_paging)
        => LET k == Len(pages)
               first == pages[1].v
               agg == ConcatData(pages)
               rv == retval.v
           IN  /\ k >= 1
               /\ \A i \in 1..(k - 1) : NextUrl(pages[i]) # <<>>
               /\ NextUrl(pages[k]) = <<>>
               /\ "paging" \notin DOMAIN rv
               /\ rv["pages_seen"] = k
               /\ Del(Del(rv, "pages_seen"), "data")
                    = Del(Del(first, "paging"), "data")
               /\ agg # <<>> => ("data" \in DOMAIN rv /\ rv["data"] = agg)
               /\ agg = <<>> => ("data" \in DOMAIN rv <=> "data" \in DOMAIN first)

C4_Witness ==
    /\ Fetched /\ outcome = "returned" /\ follow_paging
    /\ Len(pages) = 3
    /\ retval.v["pages_seen"] = 3
    /\ retval.v["data"] = <<"x", "y", "x">>

\* C5: the error a follow-up fetch raises carries the concatenation of the
\* data of the pages fetched so far and their number.
C5_PartialOnError ==
    (Fetched /\ outcome = "raised" /\ last_call.kind = "paged")
        => /\ exc.partial
           /\ exc.data = ConcatData(pages)
           /\ exc.pages_seen = Len(pages)

C5_Witness ==
    /\ Fetched /\ outcome = "raised" /\ last_call.kind = "paged"
    /\ Len(pages) = 2
    /\ exc.data = <<"x", "y">> /\ exc.pages_seen = 2

\* the page whose continuation URL the last follow-up call was made for
PageBeforeLastCall ==
    IF ~last_reply.raised /\ outcome # "crashed"
    THEN pages[Len(pages) - 1]
    ELSE pages[Len(pages)]

\* C6 as stated: every follow-up call is a GET to exactly the continuation
\* URL of the page fetched last, with no query or body arguments.
C6_FollowUpIsGet ==
    (op = "request" /\ last_call.kind = "paged")
        => /\ last_call.method = "GET"
           /\ last_call.url = NextUrl(PageBeforeLastCall)
           /\ last_call.params = EmptyMap
           /\ last_call.data = NoPostArgs

\* C7: without follow_paging a successful request makes no follow-up call
\* and returns the single page as normalized: paging kept, no pages_seen.
C7_NoPaging ==
    (Fetched /\ outcome = "returned" /\ ~follow_paging)
        => /\ Len(pages) = 1
           /\ retval = pages[1]
           /\ last_call.kind = "first"
           /\ ncalls = fetch_calls

C7_Witness ==
    /\ Fetched /\ outcome = "returned" /\ ~follow_paging
    /\ NextUrl(retval) # <<>>
    /\ "pages_seen" \notin DOMAIN retval.v

\* the fetches a call of request has started
FetchesStarted ==
    IF outcome = "returned" THEN Len(pages) ELSE Len(pages) + 1

\* C8: every fetch starts with no retry used and makes at most
\* error_code_2_retries + 1 calls; a request makes at most that many calls
\* for each fetch it started.
C8_FreshBudget ==
    /\ InFetch => (attempt = fetch_calls /\ fetch_calls <= error_code_2_retries)
    /\ fetch_calls <= error_code_2_retries + 1
    /\ op = "request" => ncalls <= FetchesStarted * (error_code_2_retries + 1)

C8_Witness ==
    /\ Fetched /\ outcome = "returned" /\ Len(pages) = 2
    /\ error_code_2_retries = 2 /\ ncalls = 6

\* the descriptor the capture of last_input is to append
IsDescriptorOf(d, in) ==
    /\ DOMAIN d \subseteq {"method", "relative_url", "body"}
    /\ d["method"] = in.method
    /\ d["relative_url"] =
          IF DOMAIN in.args = {} THEN in.path
          ELSE in.path \o <<IF HasQuery(in.path) THEN "&" ELSE "?">>
                       \o UrlEncode(in.args)
    /\ "body" \in DOMAIN d
          => (in.method \in {"POST", "PUT"} /\ d["body"] = UrlEncode(in.post_args.v))
    /\ (in.method \in {"POST", "PUT"} /\ DOMAIN in.post_args.v # {})
          => "body" \in DOMAIN d

\* C9: in batch mode request makes no HTTP call, returns nothing and appends
\* one descriptor (method, path with the encoded query, encoded body only for
\* POST/PUT) after the descriptors already captured.
C9_Capture ==
    (op = "request" /\ batch_request)
        => /\ ncalls = 0 /\ last_call = NoCall
           /\ outcome = "returned" /\ retval = Null
           /\ Len(requests_stack) = Len(prev_stack) + 1
           /\ SubSeq(requests_stack, 1, Len(prev_stack)) = prev_stack
           /\ IsDescriptorOf(requests_stack[Len(requests_stack)], last_input)

C9_Witness ==
    /\ op = "request" /\ batch_request
    /\ Len(requests_stack) = 2
    /\ "body" \in DOMAIN requests_stack[2]
    /\ HasQuery(requests_stack[2]["relative_url"])
    /\ "body" \notin DOMAIN requests_stack[1]

\* C10 as stated: after execute returns the session's buffer is empty.
C10_BufferConsumed ==
    (op = "execute" /\ outcome = "returned") => requests_stack = <<>>

\* C11: when the submission succeeds execute returns one entry per item of
\* the response, in the order of the items: the normalized result of item i
\* when _handle_response accepts it, the error raised for item i when it does
\* not; no item ends the loop or touches another item's entry.
C11_PerItem ==
    (op = "execute" /\ outcome = "returned")
        => LET items == Items(batch_response.body.json)
           IN  /\ batch_response.kind = "ok"
               /\ retval.t = "list"
               /\ Len(retval.v) = Len(items)
               /\ \A i \in 1..Len(items) :
                     /\ retval.v[i] = ItemEntry(items[i])
                     /\ (IsDict(items[i]) /\ {"code", "body"} \subseteq DOMAIN items[i].v)
                           => LET h == HandleResponse(items[i].v["code"],
                                         HeaderMap(Get(items[i].v, "headers", <<>>)),
                                         items[i].v["body"], <<>>)
                              IN  IF h.raised
                                  THEN /\ retval.v[i].kind = "GraphAPIError"
                                       /\ retval.v[i].error = h.error
                                  ELSE /\ retval.v[i].kind = "result"
                                       /\ retval.v[i].value = h.result

C11_Witness ==
    /\ op = "execute" /\ outcome = "returned"
    /\ Len(retval.v) = 3
    /\ retval.v[1].kind = "result"
    /\ retval.v[2].kind = "GraphAPIError"
    /\ retval.v[3].kind = "result"
    /\ retval.v[3].value.v["mime-type"] = "image/png"

\* C12 as stated: every failure of the submission, network-layer or
\* HTTP-layer, reaches the caller of execute as a GraphAPIError, built from
\* the structured error body when the response has one.
C12_SubmissionFailureIsApiError ==
    (op = "execute" /\ batch_response.kind \in {"network", "http"})
        => /\ outcome = "raised"
           /\ (batch_response.body.fmt = "json" /\ Truthy(batch_response.body.json))
                 => exc = GraphAPIError(batch_response.body.json, 0)

\* C13: for every response with status code >= 400 _handle_response raises a
\* GraphAPIError, whatever the headers and the body are; it returns nothing.
C13_ErrorStatusAlwaysRaises ==
    (fn_result.done /\ fn_args.status_code >= 400)
        => /\ fn_result.v.raised
           /\ fn_result.v.result = Null
           /\ fn_result.v.error.type # EmptyType

C13_Witness ==
    /\ fn_result.done /\ fn_args.status_code = 400
    /\ fn_args.body = JsonBody(Dict(EmptyMap))
    /\ fn_result.v.raised
    /\ fn_result.v.error.message = StatusMessage

\* C14: for every response with status code < 400 whose body is valid JSON
\* without an error key, _handle_response raises nothing and returns exactly
\* the parsed JSON value.
C14_JsonUnchanged ==
    (/\ fn_result.done /\ fn_args.status_code < 400
     /\ fn_args.body.fmt = "json"
     /\ ~(IsDict(fn_args.body.json) /\ "error" \in DOMAIN fn_args.body.json.v))
        => /\ ~fn_result.v.raised
           /\ fn_result.v.result = fn_args.body.json

C14_Witness ==
    /\ fn_result.done /\ fn_args.status_code = 399
    /\ "content-type" \in DOMAIN fn_args.headers
    /\ fn_args.headers["content-type"] = "image/png"
    /\ fn_args.body.fmt = "json" /\ fn_args.body.json = List(<<>>)
    /\ ~fn_result.v.raised /\ fn_result.v.result = List(<<>>)

\* the two segments of the token parse_signed_request was called with
SigSegment ==
    SubSeq(fn_args.signed_request, 1, FirstDot(fn_args.signed_request, 1) - 1)
PayloadSegment ==
    SubSeq(fn_args.signed_request, FirstDot(fn_args.signed_request, 1) + 1,
           Len(fn_args.signed_request))

\* the decoded signature is the HMAC of the undecoded payload segment
SignatureMatches ==
    /\ FirstDot(fn_args.signed_request, 1) # 0
    /\ UrlsafeB64decode(Padded(SigSegment)).ok
    /\ UrlsafeB64decode(Padded(SigSegment)).bytes
          = HmacSha256(fn_args.app_secret, PayloadSegment)

\* the payload segment decodes to a JSON mapping whose algorithm field, if it
\* has one, is a string
PayloadIsMapping ==
    /\ FirstDot(fn_args.signed_request, 1) # 0
    /\ UrlsafeB64decode(Padded(SigSegment)).ok
    /\ UrlsafeB64decode(Padded(PayloadSegment)).ok
    /\ LET j == JsonLoads(UrlsafeB64decode(Padded(PayloadSegment)).bytes)
       IN  /\ j.ok /\ IsDict(j.json)
           /\ Get(j.json.v, "algorithm", Str("")).t = "str"

PayloadMapping == JsonLoads(UrlsafeB64decode(Padded(PayloadSegment)).bytes).json

AlgorithmMatches ==
    /\ "algorithm" \in DOMAIN PayloadMapping.v
    /\ PayloadMapping.v["algorithm"].v
          \in {"HMAC-SHA256", "hmac-sha256", "Hmac-Sha256"}

\* C15: parse_signed_request returns a payload only when the decoded
\* signature segment is the HMAC-SHA256, keyed by the secret, of the undecoded
\* payload segment and the payload's algorithm is HMAC-SHA256 in any letter
\* case; a token whose payload is a mapping but whose signature is another,
\* whose algorithm is missing or whose algorithm is another name gets False.
C15_VerifiedOnly ==
    fn_result.done
        => /\ fn_result.v.kind = "data"
                => /\ SignatureMatches
                   /\ PayloadIsMapping
                   /\ AlgorithmMatches
                   /\ fn_result.v.data = PayloadMapping
           /\ (PayloadIsMapping /\ ~(SignatureMatches /\ AlgorithmMatches))
                => fn_result.v = ReturnsFalse

C15_Witness ==
    /\ fn_result.done
    /\ fn_args.signed_request = Forged(Signed(Secrets[1], JsonTexts[1].text, TRUE))
    /\ fn_args.app_secret = Secrets[1]
    /\ PayloadIsMapping /\ AlgorithmMatches /\ ~SignatureMatches
    /\ fn_result.v = ReturnsFalse

\* C16: for every secret and every payload mapping whose algorithm is
\* HMAC-SHA256 in any letter case, the token made of the encoded HMAC of the
\* encoded payload, a '.', and the encoded payload (with or without the
\* trailing '=') verifies with that secret and gives back exactly the mapping.
C16_RoundTrip ==
    fn_result.done
        => \A i \in 1..Len(JsonTexts), strip \in BOOLEAN :
              (/\ IsDict(JsonTexts[i].json)
               /\ "algorithm" \in DOMAIN JsonTexts[i].json.v
               /\ JsonTexts[i].json.v["algorithm"].t = "str"
               /\ Upper(JsonTexts[i].json.v["algorithm"].v) = "HMAC-SHA256"
               /\ fn_args.signed_request
                     = Signed(fn_args.app_secret, JsonTexts[i].text, strip))
                 => fn_result.v = ReturnsData(JsonTexts[i].json)

C16_Witness ==
    /\ fn_result.done
    /\ fn_args.signed_request = Signed(fn_args.app_secret, JsonTexts[2].text, TRUE)
    /\ fn_result.v.kind = "data"
    /\ fn_result.v.data.v["user_id"] = Str("v")

\* C17 as stated: parse_signed_request never raises, whatever the token is.
C17_NeverRaises ==
    fn_result.done => fn_result.v.kind # "raised"

\* C18 as stated: when post_args is given and the caller asks for no other
\* method, the request goes to the given path as a POST carrying post_args.
C18_PostArgsMeansPost ==
    (/\ op = "request" /\ last_call.kind = "first"
     /\ last_call.data.given
     /\ last_call.method \notin {"PUT", "DELETE"})
        => last_call.method = "POST"

\* C19 as stated: a call of request outside batch mode ends by returning a
\* result mapping or by raising a GraphAPIError, and in no other way.
C19_TwoOutcomes ==
    (op = "request" /\ pc = "idle" /\ ~batch_request)
        => \/ outcome = "returned" /\ IsDict(retval)
           \/ outcome = "raised"

\* what the raw result GraphAPIError was given holds
RawHas(k) == IsDict(fn_args.result) /\ k \in DOMAIN fn_args.result.v
RawHasNested ==
    /\ RawHas("error")
    /\ {"message", "code"} \subseteq DOMAIN fn_args.result.v["error"]

\* the supplied status code, empty when none was supplied
SuppliedStatus ==
    IF fn_args.status_code # 0 THEN fn_args.status_code ELSE EmptyType

\* C20 as stated: (message, classification) is, first match wins,
\* (a) error_description with the supplied status code, (b) error.message with
\* error.code, (c) error_msg with the supplied status code, (d) the raw result
\* itself with the empty classification.
C20_ReferenceExtraction ==
    fn_result.done
        => LET e == fn_result.v
               raw == fn_args.result
           IN  IF RawHas("error_description")
               THEN /\ e.message = Str(raw.v["error_description"])
                    /\ e.type = SuppliedStatus
               ELSE IF RawHasNested
               THEN /\ e.message = Str(raw.v["error"]["message"])
                    /\ e.type = raw.v["error"]["code"]
               ELSE IF RawHas("error_msg")
               THEN /\ e.message = Str(raw.v["error_msg"])
                    /\ e.type = SuppliedStatus
               ELSE /\ e.message = raw
                    /\ e.type = EmptyType

\* the classification before the message is looked for: the supplied status
\* code, else the raw result's error_code, else empty
BaseClassification ==
    IF fn_args.status_code # 0 THEN fn_args.status_code
    ELSE IF RawHas("error_code") THEN fn_args.result.v["error_code"]
    ELSE EmptyType

\* C20 as amended: the classification is the base classification in the
\* cases (a), (c) and (d), the fallback included, and error.code in case (b),
\* which applies only when error.message and error.code are both there.
C20_Extraction ==
    fn_result.done
        => LET e == fn_result.v
               raw == fn_args.result
           IN  /\ e.result = raw
               /\ IF RawHas("error_description")
                  THEN /\ e.message = Str(raw.v["error_description"])
                       /\ e.type = BaseClassification
                  ELSE IF RawHasNested
                  THEN /\ e.message = Str(raw.v["error"]["message"])
                       /\ e.type = raw.v["error"]["code"]
                  ELSE IF RawHas("error_msg")
                  THEN /\ e.message = Str(raw.v["error_msg"])
                       /\ e.type = BaseClassification
                  ELSE /\ e.message = raw
                       /\ e.type = BaseClassification

C20_Witness ==
    /\ fn_result.done
    /\ fn_args.result = NotParsedMessage /\ fn_args.status_code = 500
    /\ fn_result.v.message = NotParsedMessage
    /\ fn_result.v.type = 500

\* the initial attempts a call of request has made, one for each fetch that
\* made a call
InitialAttempts ==
    IF InFetch THEN Len(pages) + (IF fetch_calls >= 1 THEN 1 ELSE 0)
    ELSE IF outcome \in {"raised", "crashed"} THEN Len(pages) + 1
    ELSE Len(pages)

\* the retry attempts it has made
RetriesMade == ncalls - InitialAttempts

\* C21: with a positive error_code_2_sleeptime there is one delay before each
\* retry attempt and no other: the delays made are as many as the retry
\* attempts made, the initial attempt of a fetch (a follow-up fetch included)
\* is not preceded by one; with sleeptime 0 there is never a delay.
C21_DelayBeforeEachRetry ==
    op = "request"
        => /\ nsleeps = (IF error_code_2_sleeptime > 0 THEN RetriesMade ELSE 0)
           /\ RetriesMade >= 0
           /\ last_call.slept => error_code_2_sleeptime > 0
           \* the call before a first retry, or the only call of a fetch, is
           \* its initial attempt
           /\ ((InFetch /\ attempt = 1) \/ (~InFetch /\ fetch_calls = 1))
                 => ~last_call.slept
           \* any later call of a fetch is a retry
           /\ ((InFetch /\ attempt >= 2) \/ (~InFetch /\ fetch_calls >= 2))
                 => (last_call.slept <=> error_code_2_sleeptime > 0)

C21_Witness ==
    /\ Fetched /\ outcome = "returned"
    /\ error_code_2_sleeptime > 0 /\ error_code_2_retries = 2
    /\ Len(pages) = 2 /\ ncalls = 5 /\ nsleeps = 3
    /\ last_call.kind = "paged" /\ last_call.slept

\* C22 as stated: after any sequence of enter, exit and request, nested
\* scopes included, the batch-mode flag is set exactly when a batch scope is
\* still open.
C22_FlagTracksScopes ==
    batch_request <=> open_scopes > 0

\* the credential is written in an encoded argument list
CarriesCredential(encoded) ==
    \E i \in 1..Len(encoded) : encoded[i] = "access_token=" \o access_token

\* C23 as stated: when the session holds a credential, every captured
\* descriptor carries it in exactly one place, its relative_url or its body.
C23_CredentialOnce ==
    access_token # ""
        => \A i \in 1..Len(requests_stack) :
              LET d == requests_stack[i]
                  inUrl == CarriesCredential(d["relative_url"])
                  inBody == "body" \in DOMAIN d /\ CarriesCredential(d["body"])
              IN  (inUrl \/ inBody) /\ ~(inUrl /\ inBody)

\* C24: execute makes exactly one HTTP call, the batch POST, and no delay,
\* whatever error_code_2_retries, error_code_2_sleeptime and follow_paging
\* are: an item with classification 2 is only turned into the error of its
\* position, an item with a continuation URL only into its result, with the
\* paging metadata still in it and no pages_seen.
C24_OneCall ==
    (op = "execute" /\ has_requests_stack)
        => /\ ncalls = 1 /\ nsleeps = 0
           /\ last_call.kind = "batch"
           /\ outcome = "returned"
                => \A i \in 1..Len(retval.v) :
                      LET item == Items(batch_response.body.json)[i]
                          e == retval.v[i]
                      IN  /\ item = TransientItem
                                => /\ e.kind = "GraphAPIError"
                                   /\ e.error.type = ERROR_CODE_TYPE_2
                          /\ item = PageItem
                                => /\ e.kind = "result"
                                   /\ NextUrl(e.value) = U1
                                   /\ "pages_seen" \notin DOMAIN e.value.v

C24_Witness ==
    /\ op = "execute" /\ outcome = "returned"
    /\ error_code_2_retries = 2 /\ error_code_2_sleeptime > 0 /\ follow_paging
    /\ requests_stack # <<>>
    /\ Len(retval.v) = 2
    /\ retval.v[1].kind = "GraphAPIError"
    /\ retval.v[1].error.type = ERROR_CODE_TYPE_2
    /\ NextUrl(retval.v[2].value) = U1
    /\ ncalls = 1

====
